---- MODULE Spec2Model ----
(***************************************************************************)
(* A model of the aria agent: the graph iterator (GraphIter::next), its    *)
(* node behaviours (Start, UserRequest, ModelRequest, CallTools, End) and  *)
(* the stream aggregator (process_events) that folds the provider's event  *)
(* stream into one Response.                                               *)
(*                                                                         *)
(* Ten specifications share the definitions:                               *)
(*   Spec        the iterator driving the node behaviours of the sources   *)
(*   GenericSpec the iterator driving an arbitrary NodeRunner, i.e. every  *)
(*               Result<NodeTransition, GraphError> a behaviour can return *)
(*   AggSpec     ModelRequest's collect loop followed by process_events,   *)
(*               over every bounded event sequence                         *)
(*   FragSpec    the same, over the fragments of two ToolUse blocks        *)
(*   MsgSpec     the same, over message-level events                       *)
(*   EdgeSpec    the same, over events of one index in any order, with     *)
(*               thinking events and events after MessageStop              *)
(*   CallToolsSpec CallTools::run on an arbitrary State                    *)
(*   TwoRunSpec  two iterators created from one runner, their calls of     *)
(*               next() interleaved                                        *)
(*   ConfigSpec  load_config_file over what it can find on disk            *)
(*   LiveSpec    one run whose caller keeps calling next() and whose model *)
(*               asks for a tool a bounded number of times                 *)
(*                                                                         *)
(* Strings are TLA+ strings (push_str is \o).  A JSON text is a sequence   *)
(* of lexical tokens, so that concatenating fragments and parsing the      *)
(* whole is different from parsing a fragment.                             *)
(***************************************************************************)
EXTENDS Naturals, Sequences, FiniteSets, TLC

VARIABLES
    message_history,  \* State.message_history : Vec<Message>
    current_user_prompt, \* State.current_user_prompt
    tool_outputs,     \* State.tool_outputs : HashMap<String, String>
    deps_tools,       \* Deps.tools : Option<Vec<ToolType>>, by tool name
    current_node,     \* GraphIter.current_node
    finished,         \* GraphIter.finished
    result,           \* GraphIter.result : Option<String>
    log,              \* history variable: one entry per call of next()
    events,           \* the Vec<StreamEvent> collected by ModelRequest's loop
    response,         \* what process_events returned for `events`
    runs,             \* the GraphIters created from one GraphRunner, each with
                      \* its own State, and the inputs each has been fed
    env,              \* what load_config_file finds: directories and files
    loaded            \* what load_config_file returned

vars == <<message_history, current_user_prompt, tool_outputs, deps_tools,
          current_node, finished, result, log, events, response, runs,
          env, loaded>>

machine_vars == <<message_history, current_user_prompt, tool_outputs, deps_tools,
                  current_node, finished, result, log>>
agg_vars == <<events, response>>
config_vars == <<env, loaded>>

-----------------------------------------------------------------------------
(* Bounds of the model *)

\* events between the optional MessageStart and the optional closing pair
MaxEvents == 4
\* calls of next() in one run of Spec
MaxCalls == 7
\* calls of next() in one run of GenericSpec
MaxGenericCalls == 5
MaxRunCalls == 4
MaxFragments == 5
MaxDeltas == 3
MaxEdgeEvents == 4
MaxToolTurns == 2

-----------------------------------------------------------------------------
(* Option<T>: None is the string "None" for enum-like options, the empty   *)
(* set for structured ones.                                                *)

None == "None"

StopReasons == {"EndTurn", "MaxTokens", "StopSequence", "ToolUse"}

KnownToolNames == {"read_file", "write_file", "list_files", "tree", "run_command"}

\* variant: every name converts
ToolNameTryFrom_Any(value) == [ok |-> TRUE, name |-> value]

\* impl TryFrom<String> for ToolName
ToolNameTryFrom(value) ==
    IF value \in KnownToolNames
        THEN [ok |-> TRUE, name |-> value]
        ELSE [ok |-> FALSE, name |-> value]

-----------------------------------------------------------------------------
(* serde_json::Value and serde_json::from_str, on token sequences.         *)
(* The grammar is the part of JSON the fragments can spell: a scalar (a    *)
(* number or a string), or an object of "key": scalar members.             *)

JKeys == {"\"a\"", "\"b\"", "\"path\""}
JNums == {"1", "2"}
JStrings == {"\"f\""}
JScalars == JNums \cup JStrings

JObject(members) == [t |-> "object", m |-> members, s |-> "-"]
JScalar(tok) == [t |-> IF tok \in JNums THEN "number" ELSE "string", m |-> {}, s |-> tok]

\* Map::insert: a later member with the same key replaces the earlier one
JInsert(members, k, v) == {p \in members : p[1] # k} \cup {<<k, v>>}

RECURSIVE ParseMembers(_, _)
\* toks: what follows a complete member; members: the map built so far
ParseMembers(toks, members) ==
    IF toks = <<"}">>
        THEN [ok |-> TRUE, value |-> JObject(members)]
    ELSE IF Len(toks) >= 5 /\ toks[1] = "," /\ toks[2] \in JKeys /\ toks[3] = ":"
                           /\ toks[4] \in JScalars
        THEN ParseMembers(SubSeq(toks, 5, Len(toks)), JInsert(members, toks[2], toks[4]))
    ELSE [ok |-> FALSE, value |-> JObject({})]

\* serde_json::from_str::<serde_json::Value>
JsonFromStr(toks) ==
    IF Len(toks) = 1 /\ toks[1] \in JScalars
        THEN [ok |-> TRUE, value |-> JScalar(toks[1])]
    ELSE IF toks = <<"{", "}">>
        THEN [ok |-> TRUE, value |-> JObject({})]
    ELSE IF Len(toks) >= 5 /\ toks[1] = "{" /\ toks[2] \in JKeys /\ toks[3] = ":"
                           /\ toks[4] \in JScalars
        THEN ParseMembers(SubSeq(toks, 5, Len(toks)), {<<toks[2], toks[4]>>})
    ELSE [ok |-> FALSE, value |-> JObject({})]

\* the fragments of the documented scenario: {"a":1   ,"b":2   }
FragOpenA == <<"{", "\"a\"", ":", "1">>
FragB == <<",", "\"b\"", ":", "2">>
FragClose == <<"}">>
\* a complete input for read_file: {"path":"f"}
FragPath == <<"{", "\"path\"", ":", "\"f\"", "}">>

EmptyInput == JObject({})

-----------------------------------------------------------------------------
(* Stream events (providers::models::StreamEvent)                          *)

NoUsage == {}
SomeUsage(i, o) == {[input_tokens |-> i, output_tokens |-> o]}

MessageStart(id, model, role, usage) ==
    [type |-> "message_start", id |-> id, model |-> model, role |-> role,
     usage |-> usage]
TextStart(index, text) ==
    [type |-> "content_block_start", index |-> index,
     content_block |-> [type |-> "text", text |-> text]]
ToolUseStart(index, id, name, input) ==
    [type |-> "content_block_start", index |-> index,
     content_block |-> [type |-> "tool_use", id |-> id, name |-> name, input |-> input]]
ThinkingStart(index, thinking) ==
    [type |-> "content_block_start", index |-> index,
     content_block |-> [type |-> "thinking", thinking |-> thinking]]
TextDelta(index, text) ==
    [type |-> "content_block_delta", index |-> index,
     delta |-> [type |-> "text_delta", text |-> text]]
InputJsonDelta(index, partial_json) ==
    [type |-> "content_block_delta", index |-> index,
     delta |-> [type |-> "input_json_delta", partial_json |-> partial_json]]
ThinkingDelta(index, thinking) ==
    [type |-> "content_block_delta", index |-> index,
     delta |-> [type |-> "thinking_delta", thinking |-> thinking]]
SignatureDelta(index, signature) ==
    [type |-> "content_block_delta", index |-> index,
     delta |-> [type |-> "signature_delta", signature |-> signature]]
ContentBlockStop(index) == [type |-> "content_block_stop", index |-> index]
MessageDelta(stop_reason, stop_sequence, usage) ==
    [type |-> "message_delta", stop_reason |-> stop_reason,
     stop_sequence |-> stop_sequence, usage |-> usage]
MessageStop == [type |-> "message_stop"]
Ping == [type |-> "ping"]
ErrorEvent(error_type, message) ==
    [type |-> "error", error_type |-> error_type, message |-> message]

-----------------------------------------------------------------------------
(* AnthropicStreamEvent::process_events: the fold over the events.         *)
(* The accumulator holds the locals of the function; `failed` is None      *)
(* while the loop runs and the error message once a `return Err` or a `?`  *)
(* has left it.                                                            *)

Min(S) == CHOOSE x \in S : \A y \in S : x <= y

MapInsert(m, k, v) == [i \in (DOMAIN m) \cup {k} |-> IF i = k THEN v ELSE m[i]]
MapRemove(m, k) == [i \in (DOMAIN m) \ {k} |-> m[i]]

TextBlock(text) == [type |-> "text", text |-> text]
ToolUseBlock(id, name, input) ==
    [type |-> "tool_use", id |-> id, name |-> name, input |-> input]

InitialUsage == [input_tokens |-> 0, output_tokens |-> 0]

InitialAcc ==
    [id |-> "", model |-> "", role |-> "assistant", stop_reason |-> None,
     stop_sequence |-> None, usage |-> InitialUsage,
     content_blocks |-> <<>>, json_buffers |-> <<>>, failed |-> None]

ApplyMessageStart(acc, e) ==
    [acc EXCEPT !.id = e.id, !.model = e.model, !.role = e.role,
                !.usage = IF e.usage # NoUsage THEN CHOOSE u \in e.usage : TRUE ELSE @]

\* variant: a Thinking Start is kept as a Text entry
ApplyContentBlockStart_KeepsThinking(acc, e) ==
    LET cb == e.content_block IN
    CASE cb.type = "text" ->
            [acc EXCEPT !.content_blocks = MapInsert(@, e.index, TextBlock(cb.text))]
      [] cb.type = "tool_use" ->
            LET name == ToolNameTryFrom(cb.name) IN
            IF name.ok
                THEN [acc EXCEPT !.content_blocks =
                        MapInsert(@, e.index, ToolUseBlock(cb.id, name.name, cb.input))]
                ELSE [acc EXCEPT !.failed = "Invalid tool name"]
      [] OTHER ->
            [acc EXCEPT !.content_blocks = MapInsert(@, e.index, TextBlock(cb.thinking))]

ApplyContentBlockStart(acc, e) ==
    LET cb == e.content_block IN
    CASE cb.type = "text" ->
            [acc EXCEPT !.content_blocks = MapInsert(@, e.index, TextBlock(cb.text))]
      [] cb.type = "tool_use" ->
            LET name == ToolNameTryFrom(cb.name) IN
            IF name.ok
                THEN [acc EXCEPT !.content_blocks =
                        MapInsert(@, e.index, ToolUseBlock(cb.id, name.name, cb.input))]
                ELSE [acc EXCEPT !.failed = "Invalid tool name"]
      [] OTHER -> acc

\* variant: a TextDelta replaces the entry's text instead of extending it
ApplyTextDelta_Replaces(acc, index, text) ==
    [acc EXCEPT !.content_blocks = MapInsert(@, index, TextBlock(text))]

\* variant: a TextDelta leaves a ToolUse entry alone
ApplyTextDelta_KeepsToolUse(acc, index, text) ==
    IF index \in DOMAIN acc.content_blocks /\ acc.content_blocks[index].type = "text"
        THEN [acc EXCEPT !.content_blocks[index].text = @ \o text]
    ELSE IF index \in DOMAIN acc.content_blocks
        THEN acc
    ELSE [acc EXCEPT !.content_blocks = MapInsert(@, index, TextBlock(text))]

\* variant: a TextDelta for an index without an entry is dropped
ApplyTextDelta_NeedsEntry(acc, index, text) ==
    IF index \in DOMAIN acc.content_blocks /\ acc.content_blocks[index].type = "text"
        THEN [acc EXCEPT !.content_blocks[index].text = @ \o text]
        ELSE acc

ApplyTextDelta(acc, index, text) ==
    IF index \in DOMAIN acc.content_blocks /\ acc.content_blocks[index].type = "text"
        THEN [acc EXCEPT !.content_blocks[index].text = @ \o text]
        ELSE [acc EXCEPT !.content_blocks = MapInsert(@, index, TextBlock(text))]

\* variant: one buffer for all indices
ApplyInputJsonDelta_OneBuffer(acc, index, partial_json) ==
    IF 0 \in DOMAIN acc.json_buffers
        THEN [acc EXCEPT !.json_buffers[0] = @ \o partial_json]
        ELSE [acc EXCEPT !.json_buffers = MapInsert(@, 0, partial_json)]

ApplyInputJsonDelta(acc, index, partial_json) ==
    IF index \in DOMAIN acc.json_buffers
        THEN [acc EXCEPT !.json_buffers[index] = @ \o partial_json]
        ELSE [acc EXCEPT !.json_buffers = MapInsert(@, index, partial_json)]

ApplyContentBlockDelta(acc, e) ==
    CASE e.delta.type = "text_delta" -> ApplyTextDelta(acc, e.index, e.delta.text)
      [] e.delta.type = "input_json_delta" ->
            ApplyInputJsonDelta(acc, e.index, e.delta.partial_json)
      [] OTHER -> acc

\* variant: a Stop flushes the buffer of the lowest buffered index, whatever
\* index it names
ApplyContentBlockStop_AnyIndex(acc, e) ==
    IF acc.json_buffers # <<>>
        THEN LET index == Min(DOMAIN acc.json_buffers)
                 json_string == acc.json_buffers[index]
                 removed == [acc EXCEPT !.json_buffers = MapRemove(@, index)]
             IN  IF index \in DOMAIN acc.content_blocks
                    /\ acc.content_blocks[index].type = "tool_use"
                     THEN LET parsed == JsonFromStr(json_string) IN
                          IF parsed.ok
                              THEN [removed EXCEPT
                                        !.content_blocks[index].input = parsed.value]
                              ELSE [removed EXCEPT !.failed = "Failed to parse JSON"]
                     ELSE removed
        ELSE acc

ApplyContentBlockStop(acc, e) ==
    IF e.index \in DOMAIN acc.json_buffers
        THEN LET json_string == acc.json_buffers[e.index]
                 removed == [acc EXCEPT !.json_buffers = MapRemove(@, e.index)]
             IN  IF e.index \in DOMAIN acc.content_blocks
                    /\ acc.content_blocks[e.index].type = "tool_use"
                     THEN LET parsed == JsonFromStr(json_string) IN
                          IF parsed.ok
                              THEN [removed EXCEPT
                                        !.content_blocks[e.index].input = parsed.value]
                              ELSE [removed EXCEPT !.failed = "Failed to parse JSON"]
                     ELSE removed
        ELSE acc

\* variant: a MessageDelta without a stop_reason keeps the earlier one
ApplyMessageDelta_KeepsStopReason(acc, e) ==
    [acc EXCEPT !.stop_reason = IF e.stop_reason = None THEN @ ELSE e.stop_reason,
                !.stop_sequence = e.stop_sequence,
                !.usage = IF e.usage # NoUsage THEN CHOOSE u \in e.usage : TRUE ELSE @]

ApplyMessageDelta(acc, e) ==
    [acc EXCEPT !.stop_reason = e.stop_reason, !.stop_sequence = e.stop_sequence,
                !.usage = IF e.usage # NoUsage THEN CHOOSE u \in e.usage : TRUE ELSE @]

\* `_ => {}`: MessageStop, Ping and Error fall through to this arm
ApplyOtherEvent(acc, e) == acc

ApplyEvent(acc, e) ==
    CASE e.type = "message_start" -> ApplyMessageStart(acc, e)
      [] e.type = "content_block_start" -> ApplyContentBlockStart(acc, e)
      [] e.type = "content_block_delta" -> ApplyContentBlockDelta(acc, e)
      [] e.type = "content_block_stop" -> ApplyContentBlockStop(acc, e)
      [] e.type = "message_delta" -> ApplyMessageDelta(acc, e)
      [] OTHER -> ApplyOtherEvent(acc, e)

RECURSIVE ProcessLoop_StopsAtMessageStop(_, _)
\* variant: the loop breaks at MessageStop
ProcessLoop_StopsAtMessageStop(acc, evs) ==
    IF evs = <<>> \/ acc.failed # None \/ Head(evs).type = "message_stop"
        THEN acc
        ELSE ProcessLoop_StopsAtMessageStop(ApplyEvent(acc, Head(evs)), Tail(evs))

RECURSIVE ProcessLoop(_, _)
\* `for event in events { match event { .. } }`
ProcessLoop(acc, evs) ==
    IF evs = <<>> \/ acc.failed # None
        THEN acc
        ELSE ProcessLoop(ApplyEvent(acc, Head(evs)), Tail(evs))

RECURSIVE SortedKeys(_)
\* sort_by_key(|(index, _)| *index) on the (index, block) pairs of the map
SortedKeys(S) == IF S = {} THEN <<>> ELSE <<Min(S)>> \o SortedKeys(S \ {Min(S)})

\* variant: the blocks are emitted without the sort, highest index first
SortedBlocks_Unsorted(content_blocks) ==
    LET keys == SortedKeys(DOMAIN content_blocks)
    IN  [i \in 1..Len(keys) |-> content_blocks[keys[Len(keys) + 1 - i]]]

SortedBlocks(content_blocks) ==
    LET keys == SortedKeys(DOMAIN content_blocks)
    IN  [i \in 1..Len(keys) |-> content_blocks[keys[i]]]

BuildResponse(acc) ==
    [ok |-> TRUE, id |-> acc.id, type |-> "message", role |-> acc.role,
     model |-> acc.model, content |-> SortedBlocks(acc.content_blocks),
     stop_reason |-> acc.stop_reason, stop_sequence |-> acc.stop_sequence,
     usage |-> acc.usage]

Failure(msg) == [ok |-> FALSE, error |-> msg]

AnthropicProcessEvents(evs) ==
    LET acc == ProcessLoop(InitialAcc, evs)
    IN  IF acc.failed # None THEN Failure(acc.failed) ELSE BuildResponse(acc)

\* StreamEvent -> AnthropicStreamEvent, variant by variant; no variant's
\* conversion can fail (Role, StopReason and Usage convert totally).
ConvertEvent(e) ==
    CASE e.type = "message_start" -> MessageStart(e.id, e.model, e.role, e.usage)
      [] e.type = "content_block_start" ->
            [type |-> "content_block_start", index |-> e.index,
             content_block |-> e.content_block]
      [] e.type = "content_block_delta" ->
            [type |-> "content_block_delta", index |-> e.index, delta |-> e.delta]
      [] e.type = "content_block_stop" -> ContentBlockStop(e.index)
      [] e.type = "message_delta" ->
            MessageDelta(e.stop_reason, e.stop_sequence, e.usage)
      [] e.type = "message_stop" -> MessageStop
      [] e.type = "ping" -> Ping
      [] e.type = "error" -> ErrorEvent(e.error_type, e.message)

\* <StreamEvent as StreamProcessor<StreamEvent>>::process_events
StreamProcessEvents(evs) ==
    AnthropicProcessEvents([i \in 1..Len(evs) |-> ConvertEvent(evs[i])])

-----------------------------------------------------------------------------
(* Messages and the conversation state                                     *)

ToolResultBlock(tool_use_id, content) ==
    [type |-> "tool_result", tool_use_id |-> tool_use_id, content |-> content]

Message(role, content) == [role |-> role, content |-> content]

\* impl TryFrom<Response> for Message: the role is always Assistant
MessageFromResponse(r) == Message("assistant", r.content)

State(history, outputs) == [message_history |-> history, tool_outputs |-> outputs]

NodeTransitions == {"ToUserRequest", "ToModelRequest", "ToCallTools", "ToEnd", "Terminal"}
CurrentNodes == {"Start", "UserRequest", "ModelRequest", "CallTools", "End"}
GraphErrors == {"MaxTokens", "ToolNotImplemented", "InvalidStateTransition", "Other"}

Ok(transition) == [ok |-> TRUE, transition |-> transition, err |-> "-", msg |-> "-"]
Err(kind, msg) == [ok |-> FALSE, transition |-> "-", err |-> kind, msg |-> msg]

\* what a node behaviour hands back: the state it leaves, its Result, and
\* how many provider streams it opened and tools it executed; `handed` is
\* the ToolResult an executor handed back, if one ran; `sent` is the history
\* handed to the provider, if it was called, and `received` the events
\* collected from it, if the stream was read to its end
Ran(st, res, streams, execs, stop) ==
    [state |-> st, res |-> res, streams |-> streams, execs |-> execs, stop |-> stop,
     handed |-> {}, sent |-> {}, received |-> {}]

-----------------------------------------------------------------------------
(* Node behaviours                                                         *)

StartRun(st, prompt) ==
    Ran([st EXCEPT !.message_history =
            Append(@, Message("user", <<TextBlock(prompt)>>))],
        Ok("ToUserRequest"), 0, 0, "-")

\* The UserRequest behaviour for this State and BaseProvider is not among the
\* sources (nodes/user_request.rs is written for State.messages and
\* Provider::send_prompt, which models.rs does not have).  The design's
\* table sends Start straight to the model request, so the step between the
\* two changes nothing and hands over to ModelRequest.
UserRequestRun(st) == Ran(st, Ok("ToModelRequest"), 0, 0, "-")

\* variant: only the last message is sent
StreamRequest_LastOnly(st) ==
    IF st.message_history = <<>> THEN <<>>
    ELSE <<st.message_history[Len(st.message_history)]>>

\* the messages argument of provider.stream: `&state.message_history`
StreamRequest(st) == st.message_history

\* the events of the items before the first Err item, and whether one exists
ItemsOk(items) == \A i \in 1..Len(items) : items[i].ok
CollectedEvents(items) == [i \in 1..Len(items) |-> items[i].event]

\* variant: MaxTokens is routed like an ordinary end of turn
RouteOnStopReason_MaxTokensEnds(stop_reason) ==
    IF stop_reason = "ToolUse" THEN Ok("ToCallTools") ELSE Ok("ToEnd")

\* match response.stop_reason
RouteOnStopReason(stop_reason) ==
    CASE stop_reason = "MaxTokens" -> Err("MaxTokens", "Max tokens reached")
      [] stop_reason = "ToolUse" -> Ok("ToCallTools")
      [] OTHER -> Ok("ToEnd")

\* variant: a provisional assistant message is pushed before the stream is
\* read and is left behind when the step fails
ModelRequestRun_ProvisionalPush(st, po) ==
    LET begun == [st EXCEPT !.message_history = Append(@, Message("assistant", <<>>))] IN
    IF ~po.opened
        THEN Ran(begun, Err("Other", "Failed to create stream from provider"), 1, 0, "-")
    ELSE IF ~ItemsOk(po.items)
        THEN Ran(begun, Err("Other", "Error in event stream"), 1, 0, "-")
    ELSE LET r == StreamProcessEvents(CollectedEvents(po.items)) IN
         IF ~r.ok
             THEN Ran(begun, Err("Other", "Failed to process stream events"), 1, 0, "-")
             ELSE LET pushed == [st EXCEPT !.message_history =
                                    Append(@, MessageFromResponse(r))]
                  IN  Ran(pushed, RouteOnStopReason(r.stop_reason), 1, 0, r.stop_reason)

\* variant: the message is pushed only when the stop reason routes on
ReceiveResponse_PushOnSuccess(st, po) ==
    IF ~po.opened
        THEN Ran(st, Err("Other", "Failed to create stream from provider"), 1, 0, "-")
    ELSE IF ~ItemsOk(po.items)
        THEN Ran(st, Err("Other", "Error in event stream"), 1, 0, "-")
    ELSE LET r == StreamProcessEvents(CollectedEvents(po.items)) IN
         IF ~r.ok
             THEN Ran(st, Err("Other", "Failed to process stream events"), 1, 0, "-")
             ELSE LET pushed == [st EXCEPT !.message_history =
                                    Append(@, MessageFromResponse(r))]
                      routed == RouteOnStopReason(r.stop_reason)
                  IN  Ran(IF routed.ok THEN pushed ELSE st, routed, 1, 0, r.stop_reason)

\* the conversation ModelRequest has been given: what arrived, aggregated,
\* pushed and routed
ReceiveResponse(st, po) ==
    IF ~po.opened
        THEN Ran(st, Err("Other", "Failed to create stream from provider"), 1, 0, "-")
    ELSE IF ~ItemsOk(po.items)
        THEN Ran(st, Err("Other", "Error in event stream"), 1, 0, "-")
    ELSE LET r == StreamProcessEvents(CollectedEvents(po.items)) IN
         IF ~r.ok
             THEN Ran(st, Err("Other", "Failed to process stream events"), 1, 0, "-")
             ELSE LET pushed == [st EXCEPT !.message_history =
                                    Append(@, MessageFromResponse(r))]
                  IN  Ran(pushed, RouteOnStopReason(r.stop_reason), 1, 0, r.stop_reason)

\* `deps.provider.stream(&state.message_history, ..)`, then the above
ModelRequestRun(st, po) ==
    [ReceiveResponse(st, po) EXCEPT
        !.sent = {StreamRequest(st)},
        !.received = IF po.opened /\ ItemsOk(po.items)
                         THEN {CollectedEvents(po.items)} ELSE {}]

\* the keys an executor's input struct requires, each a JSON string
RequiredKeys(name) ==
    CASE name = "read_file" -> {"\"path\""}
      [] name = "write_file" -> {"\"path\"", "\"contents\""}
      [] name = "list_files" -> {"\"dir\""}
      [] name = "tree" -> {"\"dir\""}
      [] name = "run_command" -> {"\"cmd\"", "\"args\""}

\* serde_json::from_value(input) into the executor's input struct
InputDeserializes(name, input) ==
    /\ input.t = "object"
    /\ \A k \in RequiredKeys(name) :
          \E p \in input.m : p[1] = k /\ p[2] \in JStrings /\ k # "\"args\""

\* execute_tool: find the executor, parse the input, run it
ExecuteTool(name, input, tools, outcome) ==
    IF name \notin tools
        THEN [ok |-> FALSE, ran |-> FALSE, outcome |-> outcome, msg |-> "tool not found"]
    ELSE IF ~InputDeserializes(name, input)
        THEN [ok |-> FALSE, ran |-> FALSE, outcome |-> outcome, msg |-> "invalid input"]
    ELSE [ok |-> TRUE, ran |-> TRUE, outcome |-> outcome, msg |-> "-"]

\* variant: the last ToolUse block is selected
FirstToolUse_Last(content) ==
    IF \E i \in 1..Len(content) : content[i].type = "tool_use"
        THEN CHOOSE i \in 1..Len(content) :
                /\ content[i].type = "tool_use"
                /\ \A j \in 1..Len(content) : content[j].type = "tool_use" => j <= i
        ELSE 0

\* the position of the first ToolUse block of a content array, 0 if none
FirstToolUse(content) ==
    IF \E i \in 1..Len(content) : content[i].type = "tool_use"
        THEN Min({i \in 1..Len(content) : content[i].type = "tool_use"})
        ELSE 0

\* variant: the executor's text is passed on as it is
ResultContent_Raw(outcome) == outcome.content

ResultContent(outcome) ==
    IF outcome.is_error THEN "Error: " \o outcome.content ELSE outcome.content

\* a behaviour that ran one executor, which handed back `outcome`
Executed(st, res, outcome) == [Ran(st, res, 0, 1, "-") EXCEPT !.handed = {outcome}]

\* variant: tool_outputs receives the executor's text without the prefix
ProcessToolUse_StoresRaw(st, block, tools, outcome) ==
    IF tools = {}
        THEN Ran(st, Err("Other", "No tools available in the agent's dependencies"),
                 0, 0, "-")
    ELSE LET registry == CHOOSE r \in tools : TRUE
             tool_result == ExecuteTool(block.name, block.input, registry, outcome)
         IN  IF ~tool_result.ok
                 THEN Ran(st, Err("Other", tool_result.msg), 0, 0, "-")
                 ELSE LET result_content == ResultContent(tool_result.outcome) IN
                      Executed([message_history |->
                                   Append(st.message_history,
                                          Message("user",
                                                  <<ToolResultBlock(block.id,
                                                                    result_content)>>)),
                                tool_outputs |->
                                   MapInsert(st.tool_outputs, block.id,
                                             tool_result.outcome.content)],
                               Ok("ToModelRequest"), tool_result.outcome)

\* variant: the result message takes the place of the request it answers
ProcessToolUse_ReplacesLast(st, block, tools, outcome) ==
    IF tools = {}
        THEN Ran(st, Err("Other", "No tools available in the agent's dependencies"),
                 0, 0, "-")
    ELSE LET registry == CHOOSE r \in tools : TRUE
             tool_result == ExecuteTool(block.name, block.input, registry, outcome)
         IN  IF ~tool_result.ok
                 THEN Ran(st, Err("Other", tool_result.msg), 0, 0, "-")
                 ELSE LET result_content == ResultContent(tool_result.outcome) IN
                      Executed([message_history |->
                                   [st.message_history EXCEPT ![Len(st.message_history)] =
                                       Message("user",
                                               <<ToolResultBlock(block.id, result_content)>>)],
                                tool_outputs |->
                                   MapInsert(st.tool_outputs, block.id, result_content)],
                               Ok("ToModelRequest"), tool_result.outcome)

\* variant: the tool output is recorded but the result message is not pushed
ProcessToolUse_OutputsOnly(st, block, tools, outcome) ==
    IF tools = {}
        THEN Ran(st, Err("Other", "No tools available in the agent's dependencies"),
                 0, 0, "-")
    ELSE LET registry == CHOOSE r \in tools : TRUE
             tool_result == ExecuteTool(block.name, block.input, registry, outcome)
         IN  IF ~tool_result.ok
                 THEN Ran(st, Err("Other", tool_result.msg), 0, 0, "-")
                 ELSE Executed([st EXCEPT !.tool_outputs =
                                   MapInsert(@, block.id, ResultContent(tool_result.outcome))],
                               Ok("ToModelRequest"), tool_result.outcome)

\* the body of `if let ContentBlock::ToolUse { id, name, input }`
ProcessToolUse(st, block, tools, outcome) ==
    IF tools = {}
        THEN Ran(st, Err("Other", "No tools available in the agent's dependencies"),
                 0, 0, "-")
    ELSE LET registry == CHOOSE r \in tools : TRUE
             tool_result == ExecuteTool(block.name, block.input, registry, outcome)
         IN  IF ~tool_result.ok
                 THEN Ran(st, Err("Other", tool_result.msg), 0, 0, "-")
                 ELSE LET result_content == ResultContent(tool_result.outcome) IN
                      Executed([message_history |->
                                   Append(st.message_history,
                                          Message("user",
                                                  <<ToolResultBlock(block.id, result_content)>>)),
                                tool_outputs |->
                                   MapInsert(st.tool_outputs, block.id, result_content)],
                               Ok("ToModelRequest"), tool_result.outcome)

\* variant: the loop over the blocks does not return at the first ToolUse
CallToolsRun_EveryToolUse(st, tools, outcome) ==
    IF st.message_history = <<>>
        THEN Ran(st, Err("Other", "No messages in history"), 0, 0, "-")
    ELSE LET content == st.message_history[Len(st.message_history)].content
             uses == {i \in 1..Len(content) : content[i].type = "tool_use"}
         IN  IF uses = {}
                 THEN Ran(st, Err("InvalidStateTransition",
                                  "No tool use request found in the last message"),
                          0, 0, "-")
                 ELSE LET first == ProcessToolUse(st, content[Min(uses)], tools, outcome)
                          rest == uses \ {Min(uses)}
                      IN  IF ~first.res.ok \/ rest = {}
                              THEN first
                              ELSE LET second == ProcessToolUse(first.state,
                                                                content[Min(rest)],
                                                                tools, outcome)
                                   IN  Ran(second.state, second.res, 0,
                                           first.execs + second.execs, "-")

\* variant: a last message without a ToolUse block ends the run quietly
CallToolsRun_NoToolUseEnds(st, tools, outcome) ==
    IF st.message_history = <<>>
        THEN Ran(st, Err("Other", "No messages in history"), 0, 0, "-")
    ELSE LET last_msg == st.message_history[Len(st.message_history)] IN
    IF last_msg.role # "assistant"
        THEN Ran(st, Err("InvalidStateTransition", "Last message is not from assistant"),
                 0, 0, "-")
    ELSE LET i == FirstToolUse(last_msg.content) IN
    IF i = 0
        THEN Ran(st, Ok("ToEnd"), 0, 0, "-")
    ELSE ProcessToolUse(st, last_msg.content[i], tools, outcome)

\* variant: the role of the last message is not looked at
CallToolsRun_AnyRole(st, tools, outcome) ==
    IF st.message_history = <<>>
        THEN Ran(st, Err("Other", "No messages in history"), 0, 0, "-")
    ELSE LET last_msg == st.message_history[Len(st.message_history)]
             i == FirstToolUse(last_msg.content)
         IN  IF i = 0
                 THEN Ran(st, Err("InvalidStateTransition",
                                  "No tool use request found in the last message"),
                          0, 0, "-")
                 ELSE ProcessToolUse(st, last_msg.content[i], tools, outcome)

CallToolsRun(st, tools, outcome) ==
    IF st.message_history = <<>>
        THEN Ran(st, Err("Other", "No messages in history"), 0, 0, "-")
    ELSE LET last_msg == st.message_history[Len(st.message_history)] IN
    IF last_msg.role # "assistant"
        THEN Ran(st, Err("InvalidStateTransition", "Last message is not from assistant"),
                 0, 0, "-")
    ELSE LET i == FirstToolUse(last_msg.content) IN
    IF i = 0
        THEN Ran(st, Err("InvalidStateTransition",
                         "No tool use request found in the last message"), 0, 0, "-")
    ELSE ProcessToolUse(st, last_msg.content[i], tools, outcome)

\* variant: End clears the tool outputs on its way out
EndRun_Clears(st) == Ran([st EXCEPT !.tool_outputs = <<>>], Ok("Terminal"), 0, 0, "-")

EndRun(st) == Ran(st, Ok("Terminal"), 0, 0, "-")

-----------------------------------------------------------------------------
(* GraphIter::next                                                         *)

RetNone == [kind |-> "None", node |-> "-", err |-> "-", msg |-> "-"]
RetOk(node) == [kind |-> "Ok", node |-> node, err |-> "-", msg |-> "-"]
RetErr(kind, msg) == [kind |-> "Err", node |-> "-", err |-> kind, msg |-> msg]

\* result.map(|_| self.current_node.clone())
MapToNode(res, node) == IF res.ok THEN RetOk(node) ELSE RetErr(res.err, res.msg)

Iter(node, fin, res, ret) ==
    [current_node |-> node, finished |-> fin, result |-> res, ret |-> ret]

\* variant: the loop over the blocks has no `break`, the last Text block wins
EndResult_LastText(history, old) ==
    IF history # <<>> /\ history[Len(history)].role = "assistant"
        THEN LET content == history[Len(history)].content
                 texts == {i \in 1..Len(content) : content[i].type = "text"}
             IN  IF texts # {}
                     THEN content[CHOOSE i \in texts : \A j \in texts : j <= i].text
                     ELSE old
        ELSE old

\* the text of the first Text block of the last message, if it is the assistant's
EndResult(history, old) ==
    IF history # <<>> /\ history[Len(history)].role = "assistant"
        THEN LET content == history[Len(history)].content
                 texts == {i \in 1..Len(content) : content[i].type = "text"}
             IN  IF texts # {} THEN content[Min(texts)].text ELSE old
        ELSE old

\* variant: the Start arm leaves current_node where it was
StartArm_Stays(it, ran) ==
    Iter(it.current_node, it.finished, it.result, MapToNode(ran.res, "UserRequest"))

StartArm(it, ran) ==
    Iter("UserRequest", it.finished, it.result, MapToNode(ran.res, "UserRequest"))

UserRequestArm(it, ran) ==
    IF ran.res.ok
        THEN IF ran.res.transition = "ToModelRequest"
                 THEN Iter("ModelRequest", it.finished, it.result, RetOk("ModelRequest"))
                 ELSE Iter(it.current_node, it.finished, it.result,
                           RetErr("InvalidStateTransition",
                                  "Invalid transition from UserRequest"))
        ELSE Iter(it.current_node, TRUE, it.result, RetErr(ran.res.err, ran.res.msg))

\* variant: a ToCallTools transition sends the iterator back to ModelRequest
ModelRequestArm_SkipsTools(it, ran) ==
    IF ran.res.ok
        THEN CASE ran.res.transition = "ToCallTools" ->
                    Iter("ModelRequest", it.finished, it.result, RetOk("ModelRequest"))
               [] ran.res.transition = "ToEnd" ->
                    Iter("End", it.finished, it.result, RetOk("End"))
               [] OTHER ->
                    Iter(it.current_node, it.finished, it.result,
                         RetErr("InvalidStateTransition",
                                "Invalid transition from ModelRequest"))
        ELSE Iter(it.current_node, TRUE, it.result, RetErr(ran.res.err, ran.res.msg))

ModelRequestArm(it, ran) ==
    IF ran.res.ok
        THEN CASE ran.res.transition = "ToCallTools" ->
                    Iter("CallTools", it.finished, it.result, RetOk("CallTools"))
               [] ran.res.transition = "ToEnd" ->
                    Iter("End", it.finished, it.result, RetOk("End"))
               [] OTHER ->
                    Iter(it.current_node, it.finished, it.result,
                         RetErr("InvalidStateTransition",
                                "Invalid transition from ModelRequest"))
        ELSE Iter(it.current_node, TRUE, it.result, RetErr(ran.res.err, ran.res.msg))

\* variant: a tool round ends the run
CallToolsArm_Finishes(it, ran) ==
    Iter("End", TRUE, it.result, MapToNode(ran.res, "End"))

\* variant: the CallTools arm stays on CallTools after a tool round
CallToolsArm_Stays(it, ran) ==
    Iter(it.current_node, it.finished \/ ~ran.res.ok, it.result,
         MapToNode(ran.res, it.current_node))

CallToolsArm(it, ran) ==
    IF ran.res.ok
        THEN CASE ran.res.transition = "ToModelRequest" ->
                    Iter("ModelRequest", it.finished, it.result, RetOk("ModelRequest"))
               [] ran.res.transition = "ToEnd" ->
                    Iter("End", it.finished, it.result, RetOk("End"))
               [] OTHER ->
                    Iter(it.current_node, it.finished, it.result,
                         RetErr("InvalidStateTransition",
                                "Invalid transition from CallTools"))
        ELSE Iter(it.current_node, TRUE, it.result, RetErr(ran.res.err, ran.res.msg))

EndArm(it, ran) ==
    Iter(it.current_node, TRUE, EndResult(ran.state.message_history, it.result),
         MapToNode(ran.res, it.current_node))

\* the match on self.current_node, given what the node's run handed back
NextArm(it, ran) ==
    CASE it.current_node = "Start" -> StartArm(it, ran)
      [] it.current_node = "UserRequest" -> UserRequestArm(it, ran)
      [] it.current_node = "ModelRequest" -> ModelRequestArm(it, ran)
      [] it.current_node = "CallTools" -> CallToolsArm(it, ran)
      [] it.current_node = "End" -> EndArm(it, ran)

-----------------------------------------------------------------------------
(* Initial state of a run: GraphIter::new                                  *)

Prompts == {"fix the bug"}
\* Deps.tools: None ({}), or Some of the executors registered for the run
Registries == { {}, {{"read_file"}}, {{"list_files"}} }

MachineInit ==
    /\ message_history = <<>>
    /\ current_user_prompt \in Prompts
    /\ tool_outputs = <<>>
    /\ deps_tools \in Registries
    /\ current_node = "Start"
    /\ finished = FALSE
    /\ result = None
    /\ log = <<>>

-----------------------------------------------------------------------------
(* AggSpec: the stream as ModelRequest collects it, then process_events.   *)
(* The producer may open with MessageStart, emit up to MaxEvents block     *)
(* events and close with MessageDelta, MessageStop; it may also end at any *)
(* earlier point.                                                          *)

HeaderEvent == MessageStart("X", "M", "assistant", SomeUsage(1, 0))
CloseEvents == <<MessageDelta("EndTurn", None, SomeUsage(1, 2)), MessageStop>>

BlockEvents ==
    { TextStart(0, ""), TextStart(1, "S"),
      ToolUseStart(0, "t1", "read_file", EmptyInput),
      ThinkingStart(0, "T"),
      TextDelta(0, "Hi"), TextDelta(0, " there"),
      InputJsonDelta(0, FragOpenA), InputJsonDelta(0, FragClose),
      ContentBlockStop(0), ContentBlockStop(1),
      ErrorEvent("overloaded_error", "Overloaded") }

HasHeader == events # <<>> /\ events[1] = HeaderEvent
Closed == events # <<>> /\ events[Len(events)] = MessageStop
BodyLen == Len(events) - (IF HasHeader THEN 1 ELSE 0)

AggInit ==
    /\ message_history = <<>> /\ current_user_prompt = "" /\ tool_outputs = <<>>
    /\ deps_tools = {} /\ current_node = "Start" /\ finished = FALSE
    /\ result = None /\ log = <<>>
    /\ events = <<>>
    /\ response = {}
    /\ runs = <<>> /\ env = <<>> /\ loaded = {}

CollectMessageStart ==
    /\ response = {} /\ events = <<>>
    /\ events' = <<HeaderEvent>>
    /\ UNCHANGED <<response, machine_vars, runs, config_vars>>

CollectBlockEvent ==
    /\ response = {} /\ ~Closed /\ BodyLen < MaxEvents
    /\ \E e \in BlockEvents : events' = Append(events, e)
    /\ UNCHANGED <<response, machine_vars, runs, config_vars>>

CollectClose ==
    /\ response = {} /\ ~Closed
    /\ events' = events \o CloseEvents
    /\ UNCHANGED <<response, machine_vars, runs, config_vars>>

\* the stream is exhausted: process_events(events)
ProcessCollected ==
    /\ response = {}
    /\ response' = {StreamProcessEvents(events)}
    /\ UNCHANGED <<events, machine_vars, runs, config_vars>>

AggNext == CollectMessageStart \/ CollectBlockEvent \/ CollectClose \/ ProcessCollected

AggSpec == AggInit /\ [][AggNext]_vars

-----------------------------------------------------------------------------
(* FragSpec: the collect loop and process_events over the InputJsonDelta   *)
(* fragments and Stops of two ToolUse blocks, in any order.                *)

FragStarts ==
    <<ToolUseStart(0, "t1", "read_file", EmptyInput),
      ToolUseStart(1, "t2", "list_files", EmptyInput)>>

FragEvents ==
    { InputJsonDelta(0, FragOpenA), InputJsonDelta(0, FragB), InputJsonDelta(0, FragClose),
      InputJsonDelta(1, FragPath), ContentBlockStop(0), ContentBlockStop(1) }

CollectStarts ==
    /\ response = {} /\ events = <<>>
    /\ events' = FragStarts
    /\ UNCHANGED <<response, machine_vars, runs, config_vars>>

CollectFragment ==
    /\ response = {} /\ events # <<>> /\ Len(events) < Len(FragStarts) + MaxFragments
    /\ \E e \in FragEvents : events' = Append(events, e)
    /\ UNCHANGED <<response, machine_vars, runs, config_vars>>

FragNext == CollectStarts \/ CollectFragment \/ ProcessCollected

FragSpec == AggInit /\ [][FragNext]_vars

-----------------------------------------------------------------------------
(* MsgSpec: the collect loop and process_events over message-level events. *)
(* A MessageStart, with or without usage, can only open the stream.        *)

Openings == {HeaderEvent, MessageStart("X", "M", "assistant", NoUsage)}

MsgEvents ==
    { MessageDelta("EndTurn", None, SomeUsage(1, 2)),
      MessageDelta("StopSequence", "STOP", NoUsage),
      MessageDelta(None, None, NoUsage),
      MessageDelta("MaxTokens", None, SomeUsage(1, 5)),
      TextStart(0, "S"), MessageStop }

Opened1 == events # <<>> /\ events[1].type = "message_start"

CollectOpening ==
    /\ response = {} /\ events = <<>>
    /\ \E e \in Openings : events' = <<e>>
    /\ UNCHANGED <<response, machine_vars, runs, config_vars>>

CollectMessageEvent ==
    /\ response = {}
    /\ Len(events) - (IF Opened1 THEN 1 ELSE 0) < MaxDeltas
    /\ \E e \in MsgEvents : events' = Append(events, e)
    /\ UNCHANGED <<response, machine_vars, runs, config_vars>>

MsgNext == CollectOpening \/ CollectMessageEvent \/ ProcessCollected

MsgSpec == AggInit /\ [][MsgNext]_vars

-----------------------------------------------------------------------------
(* EdgeSpec: the collect loop and process_events over the events of one    *)
(* index in any order: thinking, text and tool-use events, MessageDelta    *)
(* and MessageStop, none of them ending the collection.                    *)

EdgeEvents ==
    { ThinkingStart(0, "T"), ThinkingDelta(0, "hm"), SignatureDelta(0, "sig"),
      TextStart(0, "S"), TextDelta(0, "Hi"),
      ToolUseStart(0, "t1", "read_file", EmptyInput), InputJsonDelta(0, FragOpenA),
      ContentBlockStop(0),
      MessageDelta("EndTurn", None, SomeUsage(1, 2)), MessageStop }

\* `while let Some(event_result) = stream.next().await { .. events.push(event) }`
CollectEdgeEvent ==
    /\ response = {} /\ Len(events) < MaxEdgeEvents
    /\ \E e \in EdgeEvents : events' = Append(events, e)
    /\ UNCHANGED <<response, machine_vars, runs, config_vars>>

EdgeNext == CollectEdgeEvent \/ ProcessCollected

EdgeSpec == AggInit /\ [][EdgeNext]_vars

-----------------------------------------------------------------------------
(* Spec: one run of the iterator.  Each action is one call of next().      *)

St == State(message_history, tool_outputs)

\* variant: next() without the early return on `finished`
CanRun_Always == TRUE

\* `if self.finished { return None; }` not taken
CanRun == ~finished

It == Iter(current_node, finished, result, RetNone)

LogEntry(ran, nx) ==
    [node |-> current_node, ran |-> current_node, res |-> ran.res, ret |-> nx.ret,
     streams |-> ran.streams, execs |-> ran.execs, handed |-> ran.handed,
     sent |-> ran.sent, received |-> ran.received,
     appended |-> Len(ran.state.message_history) - Len(message_history),
     stop |-> ran.stop, fin |-> nx.finished]

\* next() on an unfinished iterator whose node's run handed back `ran`
Apply(ran) ==
    LET nx == NextArm(It, ran) IN
    /\ message_history' = ran.state.message_history
    /\ tool_outputs' = ran.state.tool_outputs
    /\ current_node' = nx.current_node
    /\ finished' = nx.finished
    /\ result' = nx.result
    /\ log' = Append(log, LogEntry(ran, nx))
    /\ UNCHANGED <<current_user_prompt, deps_tools, agg_vars, runs, config_vars>>

\* next() on a finished iterator: `return None`
IdleCall(limit) ==
    /\ finished /\ Len(log) < limit
    /\ log' = Append(log, [node |-> current_node, ran |-> "none",
                           res |-> Err("-", "-"), ret |-> RetNone,
                           streams |-> 0, execs |-> 0, handed |-> {}, sent |-> {},
                           received |-> {},
                           appended |-> 0,
                           stop |-> "-",
                           fin |-> finished])
    /\ UNCHANGED <<message_history, current_user_prompt, tool_outputs, deps_tools,
                   current_node, finished, result, agg_vars, runs, config_vars>>

\* what the provider can deliver for one stream() call
Item(e) == [ok |-> TRUE, event |-> e]
ErrItem == [ok |-> FALSE, event |-> Ping]
Delivered(evs) == [opened |-> TRUE, items |-> [i \in 1..Len(evs) |-> Item(evs[i])]]
Broken(evs, k) ==
    [opened |-> TRUE, items |-> [i \in 1..k |-> Item(evs[i])] \o <<ErrItem>>]
OpenFailure == [opened |-> FALSE, items |-> <<>>]

CloseWith(stop_reason) == <<MessageDelta(stop_reason, None, SomeUsage(1, 2)), MessageStop>>

TextStream(stop_reason) ==
    <<HeaderEvent, TextStart(0, ""), TextDelta(0, "Hi"), TextDelta(0, " there"),
      ContentBlockStop(0)>> \o CloseWith(stop_reason)
ToolStream(name, json) ==
    <<HeaderEvent, TextStart(0, "S"), ContentBlockStop(0),
      ToolUseStart(1, "t1", name, EmptyInput), InputJsonDelta(1, json),
      ContentBlockStop(1)>> \o CloseWith("ToolUse")
TwoToolStream ==
    <<HeaderEvent, ToolUseStart(0, "t1", "read_file", EmptyInput),
      ToolUseStart(1, "t2", "read_file", EmptyInput),
      InputJsonDelta(1, FragPath), InputJsonDelta(0, FragPath),
      ContentBlockStop(0), ContentBlockStop(1)>> \o CloseWith("ToolUse")
NoBlockStream(stop_reason) == <<HeaderEvent>> \o CloseWith(stop_reason)
ErrorStream ==
    <<HeaderEvent, TextStart(0, ""), ErrorEvent("overloaded_error", "Overloaded")>>
TruncatedStream == <<HeaderEvent, TextStart(0, ""), TextDelta(0, "Hi")>>

MixedStream ==
    <<HeaderEvent, ToolUseStart(0, "t1", "read_file", EmptyInput), TextStart(1, "A"),
      TextStart(2, "B"), ContentBlockStop(0), ContentBlockStop(1),
      ContentBlockStop(2)>> \o CloseWith("EndTurn")

ProviderStreams ==
    {TextStream(sr) : sr \in StopReasons \cup {None}}
    \cup {ToolStream("read_file", FragPath), ToolStream("read_file", FragOpenA \o FragClose),
          ToolStream("read_file", FragOpenA), ToolStream("search", FragPath),
          TwoToolStream, MixedStream, NoBlockStream("EndTurn"), ErrorStream, TruncatedStream, <<>>}

ProviderOutcomes ==
    {OpenFailure, Broken(TextStream("EndTurn"), 3)}
    \cup {Delivered(evs) : evs \in ProviderStreams}

\* what an executor can hand back
ToolOutcomes ==
    {[is_error |-> FALSE, content |-> "contents"],
     [is_error |-> TRUE, content |-> "Failed to read file"]}

Init ==
    /\ MachineInit
    /\ events = <<>>
    /\ response = {}
    /\ runs = <<>> /\ env = <<>> /\ loaded = {}

AdvanceFinished == IdleCall(MaxCalls)

AdvanceStart ==
    /\ CanRun /\ Len(log) < MaxCalls /\ current_node = "Start"
    /\ Apply(StartRun(St, current_user_prompt))

AdvanceUserRequest ==
    /\ CanRun /\ Len(log) < MaxCalls /\ current_node = "UserRequest"
    /\ Apply(UserRequestRun(St))

AdvanceModelRequest ==
    /\ CanRun /\ Len(log) < MaxCalls /\ current_node = "ModelRequest"
    /\ \E po \in ProviderOutcomes : Apply(ModelRequestRun(St, po))

\* the future of next() is dropped while ModelRequest::run awaits the
\* provider (`.stream(..).await`, `stream.next().await`): run has pushed
\* nothing yet and next() has assigned nothing
RetDropped == [kind |-> "Dropped", node |-> "-", err |-> "-", msg |-> "-"]

AdvanceModelRequestDropped ==
    /\ CanRun /\ Len(log) < MaxCalls /\ current_node = "ModelRequest"
    /\ log' = Append(log, [node |-> current_node, ran |-> current_node,
                           res |-> Err("-", "-"), ret |-> RetDropped,
                           streams |-> 1, execs |-> 0, handed |-> {},
                           sent |-> {StreamRequest(St)}, received |-> {},
                           appended |-> 0,
                           stop |-> "-",
                           fin |-> finished])
    /\ UNCHANGED <<message_history, current_user_prompt, tool_outputs, deps_tools,
                   current_node, finished, result, agg_vars, runs, config_vars>>

AdvanceCallTools ==
    /\ CanRun /\ Len(log) < MaxCalls /\ current_node = "CallTools"
    /\ \E outcome \in ToolOutcomes : Apply(CallToolsRun(St, deps_tools, outcome))

AdvanceEnd ==
    /\ CanRun /\ Len(log) < MaxCalls /\ current_node = "End"
    /\ Apply(EndRun(St))

Next ==
    \/ AdvanceFinished
    \/ AdvanceStart
    \/ AdvanceUserRequest
    \/ AdvanceModelRequest
    \/ AdvanceModelRequestDropped
    \/ AdvanceCallTools
    \/ AdvanceEnd

Spec == Init /\ [][Next]_vars

-----------------------------------------------------------------------------
(* GenericSpec: the same iterator over an arbitrary NodeRunner.  A run may *)
(* hand back any Result<NodeTransition, GraphError>; it leaves the state   *)
(* as it found it.                                                         *)

NodeResults ==
    {Ok(t) : t \in NodeTransitions} \cup {Err(k, "-") : k \in GraphErrors}

AdvanceGenericFinished == IdleCall(MaxGenericCalls)

AdvanceGeneric ==
    /\ CanRun /\ Len(log) < MaxGenericCalls
    /\ \E res \in NodeResults : Apply(Ran(St, res, 0, 0, "-"))

GenericNext == AdvanceGenericFinished \/ AdvanceGeneric

GenericSpec == Init /\ [][GenericNext]_vars

-----------------------------------------------------------------------------
(* CallToolsSpec: CallTools::run on an arbitrary State, its result taken   *)
(* by the CallTools arm of next().                                         *)

PathInput == JObject({<<"\"path\"", "\"f\"">>})

HistoryMessages ==
    { Message("user", <<TextBlock("fix the bug")>>),
      Message("assistant", <<TextBlock("S")>>),
      Message("assistant", <<TextBlock("S"), ToolUseBlock("t1", "read_file", PathInput)>>),
      Message("assistant", <<ToolUseBlock("t1", "read_file", PathInput),
                             ToolUseBlock("t2", "list_files", PathInput)>>),
      Message("assistant", <<ToolUseBlock("t1", "read_file", EmptyInput)>>),
      Message("user", <<ToolUseBlock("t1", "read_file", PathInput)>>),
      Message("user", <<ToolResultBlock("t1", "contents")>>) }

Histories ==
    {<<>>} \cup {<<m>> : m \in HistoryMessages}
           \cup {<<m, n>> : m \in {Message("user", <<TextBlock("fix the bug")>>)},
                            n \in HistoryMessages}

EarlierOutputs == {<<>>, [t1 |-> "old"]}

CallToolsInit ==
    /\ message_history \in Histories
    /\ tool_outputs \in EarlierOutputs
    /\ deps_tools \in Registries
    /\ current_user_prompt = "fix the bug"
    /\ current_node = "CallTools" /\ finished = FALSE /\ result = None
    /\ log = <<>> /\ events = <<>> /\ response = {} /\ runs = <<>>
    /\ env = <<>> /\ loaded = {}

CallToolsNext == AdvanceCallTools \/ AdvanceFinished

CallToolsSpec == CallToolsInit /\ [][CallToolsNext]_vars

-----------------------------------------------------------------------------
(* TwoRunSpec: two iterators created from the same GraphRunner.  Each call *)
(* of next() is one step; the calls of the two runs interleave freely.     *)
(* The provider and the executors are reentrant: what they hand back to a  *)
(* call is an input of that call.                                          *)

\* GraphRunner::create_iter: the runner's Deps are cloned, GraphIter::new
\* builds a State of the run's own
CreateIter(user_prompt) ==
    [state |-> State(<<>>, <<>>), prompt |-> user_prompt,
     it |-> Iter("Start", FALSE, None, RetNone)]

\* the node behaviour `match self.current_node` selects
RunNode(node, st, prompt, tools, fed) ==
    CASE node = "Start" -> StartRun(st, prompt)
      [] node = "UserRequest" -> UserRequestRun(st)
      [] node = "ModelRequest" -> ModelRequestRun(st, fed.po)
      [] node = "CallTools" -> CallToolsRun(st, tools, fed.outcome)
      [] node = "End" -> EndRun(st)

\* GraphIter::next on one iterator
NextOn(run, st, tools, fed) ==
    IF run.it.finished
        THEN [run EXCEPT !.it.ret = RetNone]
        ELSE LET ran == RunNode(run.it.current_node, st, run.prompt, tools, fed)
             IN  [run EXCEPT !.state = ran.state, !.it = NextArm(run.it, ran)]

\* variant: the runs share the State of the first one
OwnState_Shared(rs, r) == rs[1].run.state

\* `&mut self.state`: the State a call of next() on run r works on
OwnState(rs, r) == rs[r].run.state

RunPrompts == <<"fix the bug", "add a test">>
RunOutcomes ==
    {OpenFailure, Delivered(TextStream("EndTurn")), Delivered(TextStream("MaxTokens")),
     Delivered(ToolStream("read_file", FragPath))}
NoFeed == [po |-> OpenFailure, outcome |-> [is_error |-> FALSE, content |-> "-"]]
\* what the provider or the executor hands back to a call on `node`
Feeds(node) ==
    CASE node = "ModelRequest" -> {[NoFeed EXCEPT !.po = po] : po \in RunOutcomes}
      [] node = "CallTools" -> {[NoFeed EXCEPT !.outcome = o] : o \in ToolOutcomes}
      [] OTHER -> {NoFeed}

TotalCalls == Len(runs[1].fed) + Len(runs[2].fed)

TwoRunInit ==
    /\ message_history = <<>> /\ current_user_prompt = "" /\ tool_outputs = <<>>
    /\ deps_tools = {{"read_file"}} /\ current_node = "Start" /\ finished = FALSE
    /\ result = None /\ log = <<>> /\ events = <<>> /\ response = {}
    /\ runs = [r \in 1..2 |-> [run |-> CreateIter(RunPrompts[r]), fed |-> <<>>]]
    /\ env = <<>> /\ loaded = {}

\* one call of next() on run r; `at` is the call's place in the interleaving
AdvanceRun(r) ==
    /\ Len(runs[r].fed) < MaxRunCalls
    /\ \E fed \in Feeds(runs[r].run.it.current_node) :
          runs' = [runs EXCEPT
                     ![r].run = NextOn(runs[r].run, OwnState(runs, r), deps_tools, fed),
                     ![r].fed = Append(@, [fed |-> fed, at |-> TotalCalls + 1])]
    /\ UNCHANGED <<machine_vars, agg_vars, config_vars>>

TwoRunNext == \E r \in 1..2 : AdvanceRun(r)

TwoRunSpec == TwoRunInit /\ [][TwoRunNext]_vars

-----------------------------------------------------------------------------
(* ConfigSpec: load_config_file.  The environment says whether the current *)
(* directory and the home directory can be determined and what each of the *)
(* two candidate files is: absent, valid YAML, malformed YAML, or present  *)
(* but unreadable.                                                         *)

FileKinds == {"absent", "valid", "malformed", "unreadable"}
Environments ==
    [cwd_ok : BOOLEAN, home_ok : BOOLEAN, cwd_file : FileKinds, home_file : FileKinds]

ConfigErrors == {"Io", "Parse", "NotFound"}
ConfigOk(path) == [ok |-> TRUE, err |-> "-", path |-> path]
ConfigErr(kind, path) == [ok |-> FALSE, err |-> kind, path |-> path]

\* fs::read_to_string(path)?, then serde_yaml::from_str(&contents)?
ReadAndParse(path, file) ==
    CASE file = "unreadable" -> ConfigErr("Io", path)
      [] file = "malformed" -> ConfigErr("Parse", path)
      [] OTHER -> ConfigOk(path)

LoadConfigFile(e) ==
    IF ~e.cwd_ok THEN ConfigErr("Io", "-")                \* env::current_dir()?
    ELSE IF ~e.home_ok THEN ConfigErr("NotFound", "-")    \* home_dir().ok_or(NotFound)?
    ELSE IF e.cwd_file # "absent" THEN ReadAndParse("./aria.yml", e.cwd_file)
    ELSE IF e.home_file # "absent"
        THEN ReadAndParse("~/.config/aria/aria.yml", e.home_file)
    ELSE ConfigErr("NotFound", "-")

ConfigInit ==
    /\ message_history = <<>> /\ current_user_prompt = "" /\ tool_outputs = <<>>
    /\ deps_tools = {} /\ current_node = "Start" /\ finished = FALSE
    /\ result = None /\ log = <<>> /\ events = <<>> /\ response = {}
    /\ runs = <<>>
    /\ env \in Environments
    /\ loaded = {}

LoadConfig ==
    /\ loaded = {}
    /\ loaded' = {LoadConfigFile(env)}
    /\ UNCHANGED <<env, machine_vars, agg_vars, runs>>

ConfigNext == LoadConfig

ConfigSpec == ConfigInit /\ [][ConfigNext]_vars

-----------------------------------------------------------------------------
(* LiveSpec: one run driven as the command line drives it,                 *)
(* `while let Some(node_result) = graph_iter.next().await`: next() is      *)
(* called again and again until it returns None, so a call that can be     *)
(* made is made (weak fairness).  The provider and the executors always    *)
(* return; the model answers with stop reason ToolUse at most MaxToolTurns *)
(* times.  A call on the finished iterator returns None and changes        *)
(* nothing.                                                                *)

ToolTurns == Cardinality({i \in 1..Len(log) : log[i].stop = "ToolUse"})

LiveStart ==
    /\ CanRun /\ current_node = "Start"
    /\ Apply(StartRun(St, current_user_prompt))

LiveUserRequest ==
    /\ CanRun /\ current_node = "UserRequest"
    /\ Apply(UserRequestRun(St))

LiveModelRequest ==
    /\ CanRun /\ current_node = "ModelRequest"
    /\ \E po \in ProviderOutcomes :
          LET ran == ModelRequestRun(St, po) IN
          /\ ran.stop = "ToolUse" => ToolTurns < MaxToolTurns
          /\ Apply(ran)

LiveCallTools ==
    /\ CanRun /\ current_node = "CallTools"
    /\ \E outcome \in ToolOutcomes : Apply(CallToolsRun(St, deps_tools, outcome))

LiveEnd ==
    /\ CanRun /\ current_node = "End"
    /\ Apply(EndRun(St))

LiveNext == LiveStart \/ LiveUserRequest \/ LiveModelRequest \/ LiveCallTools \/ LiveEnd

LiveSpec == Init /\ [][LiveNext]_vars /\ WF_vars(LiveNext)

-----------------------------------------------------------------------------
(* Properties of the iterator (Spec, GenericSpec).  `log` holds one entry  *)
(* per call of next(): the node at call time, what ran, what the node's    *)
(* run handed back, what next() returned, and the call's effects.          *)

Calls == 1..Len(log)

\* the current node once call i has returned
NodeAfter(i) == IF i < Len(log) THEN log[i + 1].node ELSE current_node

\* call i ran ModelRequest and the stream was aggregated into a response
Aggregated(i) == log[i].ran = "ModelRequest" /\ log[i].stop # "-"

C2_EveryErrorFinishes ==
    \A i \in Calls : log[i].ret.kind = "Err" =>
        /\ log[i].fin
        /\ i < Len(log) => log[i + 1].ran = "none" /\ log[i + 1].ret = RetNone

TransitionTable(node) ==
    CASE node = "Start" -> {"ToUserRequest", "ToModelRequest"}
      [] node = "UserRequest" -> {"ToModelRequest"}
      [] node = "ModelRequest" -> {"ToCallTools", "ToEnd"}
      [] node = "CallTools" -> {"ToModelRequest"}
      [] node = "End" -> {"Terminal"}
      [] OTHER -> {}

\* C4 (as stated): for every node, when its run returns a transition that is
\* not listed for that node, next() returns InvalidStateTransition.
C4_UnlistedIsRejected ==
    \A i \in Calls :
        (/\ log[i].ran # "none" /\ log[i].res.ok
         /\ log[i].res.transition \notin TransitionTable(log[i].ran))
        => log[i].ret.kind = "Err" /\ log[i].ret.err = "InvalidStateTransition"

-----------------------------------------------------------------------------
(* Properties of the aggregator (AggSpec), stated over the collected       *)
(* `events` and the `response` that process_events handed back.            *)

Responded == response # {}
TheResponse == CHOOSE r \in response : TRUE
Succeeded == Responded /\ TheResponse.ok

BlockEventTypes == {"content_block_start", "content_block_delta", "content_block_stop"}

Positions == 1..Len(events)
BlockPositions(i) ==
    {k \in Positions : events[k].type \in BlockEventTypes /\ events[k].index = i}
BlockIndices ==
    {events[k].index : k \in {p \in Positions : events[p].type \in BlockEventTypes}}

Max(S) == CHOOSE x \in S : \A y \in S : x >= y

StartsOf(i) == {k \in BlockPositions(i) : events[k].type = "content_block_start"}
StopsOf(i) == {k \in BlockPositions(i) : events[k].type = "content_block_stop"}
DeltasOf(i, delta_type) ==
    {k \in BlockPositions(i) :
        events[k].type = "content_block_delta" /\ events[k].delta.type = delta_type}

Opened == {i \in BlockIndices : StartsOf(i) # {}}
LastStart(i) == events[Max(StartsOf(i))].content_block
OpenedAs(kinds) == {i \in Opened : LastStart(i).type \in kinds}

\* index i has one lifecycle: one Start, then its deltas, then one Stop
OneLifecycle(i) ==
    LET ps == BlockPositions(i)
    IN  Cardinality(ps) >= 2 /\ StartsOf(i) = {Min(ps)} /\ StopsOf(i) = {Max(ps)}

DeltaKinds(kind) ==
    CASE kind = "text" -> {"text_delta"}
      [] kind = "tool_use" -> {"input_json_delta"}
      [] kind = "thinking" -> {"thinking_delta", "signature_delta"}

\* the deltas of index i are of the kind its Start announced
KindConsistent(i) ==
    \A k \in BlockPositions(i) :
        events[k].type = "content_block_delta"
            => events[k].delta.type \in DeltaKinds(LastStart(i).type)

ValidlyClosed == \A i \in BlockIndices : OneLifecycle(i) /\ KindConsistent(i)

\* the indices that get an entry: a Text or ToolUse Start, or a TextDelta
EntryIndices ==
    {i \in BlockIndices :
        \/ \E k \in StartsOf(i) : events[k].content_block.type \in {"text", "tool_use"}
        \/ DeltasOf(i, "text_delta") # {}}

Rank(S, i) == Cardinality({j \in S : j <= i})

RECURSIVE JoinTexts(_, _)
\* the texts of the TextDeltas at the positions ps, in arrival order
JoinTexts(ps, acc) ==
    IF ps = {} THEN acc
    ELSE JoinTexts(ps \ {Min(ps)}, acc \o events[Min(ps)].delta.text)

RECURSIVE JoinFragments(_, _)
\* the fragments of the InputJsonDeltas at the positions ps, in arrival order
JoinFragments(ps, acc) ==
    IF ps = {} THEN acc
    ELSE JoinFragments(ps \ {Min(ps)}, acc \o events[Min(ps)].delta.partial_json)

\* what the entry of index i must be in a stream of well-formed lifecycles
EntryMatches(entry, i) ==
    IF LastStart(i).type = "text"
        THEN entry = TextBlock(JoinTexts(DeltasOf(i, "text_delta"), LastStart(i).text))
        ELSE entry.type = "tool_use" /\ entry.id = LastStart(i).id

\* C7 (as stated): when N distinct indices are opened with ContentBlockStart,
\* of any block kind and in any interleaving, and validly closed, the
\* response has exactly N content entries, in ascending order of index.
C7_OneEntryPerOpenedIndex ==
    (Succeeded /\ ValidlyClosed) =>
        /\ Len(TheResponse.content) = Cardinality(Opened)
        /\ \A i \in OpenedAs({"text", "tool_use"}) :
              EntryMatches(TheResponse.content[Rank(Opened, i)], i)

\* C7 (amended): when every index has one well-formed lifecycle whose deltas
\* are of its kind, the response has exactly one content entry per index
\* opened as Text or ToolUse, in ascending order of index; an index opened
\* as Thinking gets no entry.
C7_OneEntryPerTextOrToolIndex ==
    (Succeeded /\ ValidlyClosed) =>
        LET S == OpenedAs({"text", "tool_use"})
        IN  /\ Len(TheResponse.content) = Cardinality(S)
            /\ \A i \in S : EntryMatches(TheResponse.content[Rank(S, i)], i)

\* index 1 was opened before index 0, both were closed, and the response
\* holds both
C7_Witness ==
    /\ Succeeded /\ ValidlyClosed
    /\ OpenedAs({"text", "tool_use"}) = {0, 1}
    /\ Min(StartsOf(1)) < Min(StartsOf(0))
    /\ Len(TheResponse.content) = 2

LiteralScenario ==
    <<MessageStart("X", "M", "assistant", SomeUsage(1, 0)),
      TextStart(0, ""), TextDelta(0, "Hi"), TextDelta(0, " there"),
      ContentBlockStop(0),
      MessageDelta("EndTurn", None, SomeUsage(1, 2)), MessageStop>>

\* id, model and stop_reason are those of MessageStart and MessageDelta
HeaderFieldsKept ==
    /\ TheResponse.id = (IF HasHeader THEN "X" ELSE "")
    /\ TheResponse.model = (IF HasHeader THEN "M" ELSE "")
    /\ TheResponse.stop_reason = (IF Closed THEN "EndTurn" ELSE None)

\* C8 (as stated): for every index opened as a Text block, the entry's text
\* is the Start's text followed by the texts of all TextDeltas for that
\* index in arrival order; id, model and stop_reason are those of
\* MessageStart and MessageDelta; the literal scenario yields "Hi there".
C8_TextIsStartPlusAllDeltas ==
    Succeeded =>
        /\ \A i \in Opened :
              (Cardinality(StartsOf(i)) = 1 /\ LastStart(i).type = "text") =>
                  TheResponse.content[Rank(EntryIndices, i)] =
                      TextBlock(JoinTexts(DeltasOf(i, "text_delta"), LastStart(i).text))
        /\ HeaderFieldsKept
        /\ events = LiteralScenario =>
              TheResponse.content = <<TextBlock("Hi there")>>

\* C8 (amended): for every index opened once, as a Text block, the entry's
\* text is the Start's text followed by the texts of the TextDeltas for the
\* index that arrive after the Start, in arrival order; id, model and
\* stop_reason are those of MessageStart and MessageDelta; the literal
\* scenario yields "Hi there".
C8_TextIsStartPlusLaterDeltas ==
    Succeeded =>
        /\ \A i \in Opened :
              (Cardinality(StartsOf(i)) = 1 /\ LastStart(i).type = "text") =>
                  TheResponse.content[Rank(EntryIndices, i)] =
                      TextBlock(JoinTexts({k \in DeltasOf(i, "text_delta") :
                                              k > Max(StartsOf(i))},
                                          LastStart(i).text))
        /\ HeaderFieldsKept
        /\ events = LiteralScenario =>
              /\ TheResponse.content = <<TextBlock("Hi there")>>
              /\ TheResponse.id = "X" /\ TheResponse.model = "M"
              /\ TheResponse.stop_reason = "EndTurn"

\* the literal scenario has been aggregated
C8_Witness == Succeeded /\ events = LiteralScenario

\* C9 (as stated): for every ToolUse block that received InputJsonDelta
\* fragments, a successful aggregation returns the block with input equal to
\* the parse of the concatenation of all its fragments.
C9_InputIsParseOfAllFragments ==
    Succeeded =>
        \A i \in Opened :
            (/\ Cardinality(StartsOf(i)) = 1 /\ LastStart(i).type = "tool_use"
             /\ DeltasOf(i, "text_delta") = {}
             /\ DeltasOf(i, "input_json_delta") # {})
            => LET parsed == JsonFromStr(JoinFragments(DeltasOf(i, "input_json_delta"),
                                                       <<>>))
                   entry == TheResponse.content[Rank(EntryIndices, i)]
               IN  parsed.ok /\ entry.type = "tool_use" /\ entry.input = parsed.value

\* C10 (as stated): an Error event anywhere in the sequence makes
\* process_events return a failure.
C10_ErrorEventAborts ==
    (Responded /\ \E k \in Positions : events[k].type = "error") => ~TheResponse.ok

\* C11 (as stated): an event sequence that is exhausted without ever
\* containing MessageStop makes process_events return a failure: no response
\* is produced for it.
C11_NoMessageStopFails ==
    (Responded /\ \A k \in Positions : events[k].type # "message_stop")
        => ~TheResponse.ok

-----------------------------------------------------------------------------
(* Properties of single steps (Spec, CallToolsSpec)                        *)

\* the entry of the call that has just returned
LastCall == log[Len(log)]

RequestFailures ==
    {"Failed to create stream from provider", "Error in event stream",
     "Failed to process stream events"}

CompleteMessage(m) ==
    /\ DOMAIN m = {"role", "content"}
    /\ m.role \in {"user", "assistant"}
    /\ \A k \in 1..Len(m.content) :
          \/ DOMAIN m.content[k] = {"type", "text"} /\ m.content[k].type = "text"
          \/ /\ DOMAIN m.content[k] = {"type", "id", "name", "input"}
             /\ m.content[k].type = "tool_use"
          \/ /\ DOMAIN m.content[k] = {"type", "tool_use_id", "content"}
             /\ m.content[k].type = "tool_result"

IsToolResultMessage(m) ==
    m.role = "user" /\ Len(m.content) = 1 /\ m.content[1].type = "tool_result"

LastMessage == message_history[Len(message_history)]
ToolUsesOf(m) == {k \in 1..Len(m.content) : m.content[k].type = "tool_use"}
FirstAsked(m) == m.content[Min(ToolUsesOf(m))]

\* a call of next() that runs CallTools, and the entry it leaves
CallToolsStep == ~finished /\ current_node = "CallTools" /\ Len(log') = Len(log) + 1
Returned == log'[Len(log')]
StateKept == message_history' = message_history /\ tool_outputs' = tool_outputs

\* the registry holds an executor for the block and its input has the shape
Executable(block) ==
    /\ deps_tools # {}
    /\ \E registry \in deps_tools : block.name \in registry
    /\ block.input = PathInput

\* C14: CallTools on a last message of role Assistant without any ToolUse
\* block fails with the "No tool use request found" error, executes no tool
\* and leaves message_history and tool_outputs unchanged.
C14_NoToolUseFails ==
    [][(/\ CallToolsStep /\ message_history # <<>>
        /\ LastMessage.role = "assistant" /\ ToolUsesOf(LastMessage) = {})
       => /\ Returned.ret = RetErr("InvalidStateTransition",
                                   "No tool use request found in the last message")
          /\ Returned.execs = 0
          /\ StateKept]_vars

\* CallTools has just failed on an assistant message that holds only text
C14_Witness ==
    /\ log # <<>> /\ LastCall.ran = "CallTools" /\ LastCall.ret.kind = "Err"
    /\ LastCall.ret.msg = "No tool use request found in the last message"
    /\ LastMessage = Message("assistant", <<TextBlock("S")>>)
    /\ finished

\* C15: when the last Assistant message holds several ToolUse blocks, one
\* CallTools step invokes one executor at most, for the first ToolUse block
\* in content order: the step succeeds exactly when that block is executable,
\* and then the only ToolResult and the only new tool_outputs entry are the
\* first block's.
C15_FirstToolUseWins ==
    [][(/\ CallToolsStep /\ message_history # <<>>
        /\ LastMessage.role = "assistant"
        /\ Cardinality(ToolUsesOf(LastMessage)) >= 2)
       => LET first == FirstAsked(LastMessage)
          IN  /\ Returned.execs <= 1
              /\ Returned.ret.kind = "Ok" <=> Executable(first)
              /\ Returned.ret.kind = "Ok" =>
                    /\ Returned.execs = 1
                    /\ Len(message_history') = Len(message_history) + 1
                    /\ message_history'[Len(message_history')].content =
                          <<ToolResultBlock(first.id, tool_outputs'[first.id])>>
                    /\ DOMAIN tool_outputs' = DOMAIN tool_outputs \cup {first.id}
              /\ Returned.ret.kind # "Ok" => Returned.execs = 0 /\ StateKept]_vars

\* the message asked for t1 and t2; one step later only t1 has a result
C15_Witness ==
    /\ Len(message_history) >= 2
    /\ LET asked == message_history[Len(message_history) - 1]
       IN  /\ asked.role = "assistant" /\ Cardinality(ToolUsesOf(asked)) = 2
           /\ LastMessage.content[1].type = "tool_result"
           /\ LastMessage.content[1].tool_use_id = FirstAsked(asked).id
    /\ "t2" \notin DOMAIN tool_outputs
    /\ log # <<>> /\ LastCall.ran = "CallTools" /\ LastCall.execs = 1

\* C16: on a successful CallTools step the history grows by exactly one
\* message, of role User, holding exactly one ToolResult block with the
\* selected block's id; tool_outputs gains or overwrites the entry of that
\* id and keeps every other entry; the next node is ModelRequest.
C16_ToolRoundCommits ==
    [][(CallToolsStep /\ Returned.ret.kind = "Ok")
       => LET sel == FirstAsked(LastMessage)
          IN  /\ sel.id \in DOMAIN tool_outputs'
              /\ message_history' =
                    Append(message_history,
                           Message("user",
                                   <<ToolResultBlock(sel.id, tool_outputs'[sel.id])>>))
              /\ \A k \in DOMAIN tool_outputs \ {sel.id} :
                    k \in DOMAIN tool_outputs' /\ tool_outputs'[k] = tool_outputs[k]
              /\ DOMAIN tool_outputs' = DOMAIN tool_outputs \cup {sel.id}
              /\ Returned.ret = RetOk("ModelRequest")
              /\ current_node' = "ModelRequest" /\ ~finished']_vars

\* a tool round whose executor reported an error has been committed
C16_Witness ==
    /\ log # <<>> /\ LastCall.ran = "CallTools" /\ LastCall.ret = RetOk("ModelRequest")
    /\ current_node = "ModelRequest"
    /\ IsToolResultMessage(LastMessage)
    /\ tool_outputs = [t1 |-> "Error: Failed to read file"]

\* C19: CallTools on a last message of role User fails with
\* InvalidStateTransition, invokes no executor and leaves message_history and
\* tool_outputs unchanged.
C19_UserLastMessageFails ==
    [][(CallToolsStep /\ message_history # <<>> /\ LastMessage.role = "user")
       => /\ Returned.ret.kind = "Err"
          /\ Returned.ret.err = "InvalidStateTransition"
          /\ Returned.execs = 0
          /\ StateKept]_vars

\* CallTools has just refused a User message, one that holds a ToolUse block
C19_Witness ==
    /\ log # <<>> /\ LastCall.ran = "CallTools"
    /\ LastCall.ret = RetErr("InvalidStateTransition",
                             "Last message is not from assistant")
    /\ LastMessage.role = "user" /\ ToolUsesOf(LastMessage) # {}
    /\ finished

\* C20 (as stated): when there is no registry, or the registry holds no
\* executor for the selected ToolUse block, CallTools fails with the error
\* kind ToolNotFound.
C20_MissingExecutorIsToolNotFound ==
    (/\ log # <<>> /\ LastCall.ran = "CallTools" /\ LastCall.ret.kind = "Err"
     /\ message_history # <<>> /\ LastMessage.role = "assistant"
     /\ ToolUsesOf(LastMessage) # {}
     /\ \/ deps_tools = {}
        \/ \A registry \in deps_tools : FirstAsked(LastMessage).name \notin registry)
    => LastCall.ret.err = "ToolNotFound"

EndHasRun == \E i \in Calls : log[i].ran = "End"

FirstTextOfLast ==
    IF message_history = <<>> \/ LastMessage.role # "assistant"
        THEN None
    ELSE IF \A k \in 1..Len(LastMessage.content) : LastMessage.content[k].type # "text"
        THEN None
    ELSE LET k == CHOOSE k \in 1..Len(LastMessage.content) :
                     /\ LastMessage.content[k].type = "text"
                     /\ \A j \in 1..(k - 1) : LastMessage.content[j].type # "text"
         IN  LastMessage.content[k].text

-----------------------------------------------------------------------------
(* Claims about runs created from the same runner (TwoRunSpec)             *)

RECURSIVE Alone(_, _, _, _)
\* the run executed alone: next() called once per input of `fed`, in order
Alone(run, tools, fed, k) ==
    IF k > Len(fed) THEN run
    ELSE Alone(NextOn(run, run.state, tools, fed[k].fed), tools, fed, k + 1)

-----------------------------------------------------------------------------
(* Claims about load_config_file (ConfigSpec)                              *)

ConfigLoaded == loaded # {}
TheConfig == CHOOSE c \in loaded : TRUE

\* C23: load_config_file looks in the current working directory first: an
\* aria.yml there is the file that is loaded whatever the state of the home
\* directory, ~/.config/aria/aria.yml is used only when the working
\* directory has none, and NotFound is returned when neither exists.
C23_CwdFileWins ==
    ConfigLoaded /\ env.cwd_ok =>
        /\ env.cwd_file = "valid" =>
              TheConfig.ok /\ TheConfig.path = "./aria.yml"
        /\ TheConfig.path = "~/.config/aria/aria.yml" => env.cwd_file = "absent"
        /\ env.cwd_file = "absent" /\ env.home_file = "absent" =>
              ~TheConfig.ok /\ TheConfig.err = "NotFound"

\* what the code does when the home directory cannot be determined
C23_NoHomeIsNotFound ==
    ConfigLoaded /\ env.cwd_ok /\ ~env.home_ok =>
        ~TheConfig.ok /\ TheConfig.err = "NotFound"

-----------------------------------------------------------------------------
(* Claims about the aggregator, continued (AggSpec)                        *)

MessageEventTypes == {"message_start", "message_delta", "message_stop"}

\* two events whose order the claim leaves open: block events of different
\* indices, or a block event next to a message-level event
Interleavable(e1, e2) ==
    \/ /\ e1.type \in BlockEventTypes /\ e2.type \in BlockEventTypes
       /\ e1.index # e2.index
    \/ e1.type \in BlockEventTypes /\ e2.type \in MessageEventTypes
    \/ e1.type \in MessageEventTypes /\ e2.type \in BlockEventTypes

\* `evs` with the events at k and k + 1 exchanged
Exchanged(evs, k) ==
    [p \in 1..Len(evs) |-> IF p = k THEN evs[k + 1] ELSE IF p = k + 1 THEN evs[k]
                           ELSE evs[p]]

\* C24: the response does not depend on how the lifecycles of different
\* indices are interleaved: exchanging two neighbouring events the claim
\* leaves unordered gives the same result.  Every sequence with the same
\* message-level events in the same order and the same per-index
\* subsequences is reached from `events` by such exchanges.
C24_InterleavingIsIrrelevant ==
    Responded =>
        \A k \in 1..(Len(events) - 1) :
            Interleavable(events[k], events[k + 1]) =>
                StreamProcessEvents(Exchanged(events, k)) = TheResponse

\* Start of index 1 arrives before index 0 is stopped
C24_Witness ==
    /\ Succeeded
    /\ events = <<TextStart(0, ""), TextStart(1, "S"), TextDelta(0, "Hi"),
                  ContentBlockStop(0)>>
    /\ Len(TheResponse.content) = 2
    /\ TheResponse.content[1] = TextBlock("Hi")

-----------------------------------------------------------------------------
(* Claims about the JSON buffers (FragSpec)                                *)

Fragments(i) == DeltasOf(i, "input_json_delta")
ParseOfFragments(i) == JsonFromStr(JoinFragments(Fragments(i), <<>>))

\* index i: one ToolUse Start, then fragments, then its one Stop
FragmentsThenStop(i) ==
    /\ Cardinality(StartsOf(i)) = 1 /\ LastStart(i).type = "tool_use"
    /\ DeltasOf(i, "text_delta") = {}
    /\ Fragments(i) # {} /\ Cardinality(StopsOf(i)) = 1
    /\ \A k \in Fragments(i) : Max(StartsOf(i)) < k /\ k < Max(StopsOf(i))

\* C25: the fragments of an index are buffered in arrival order and parsed
\* only at that index's ContentBlockStop.  For a ToolUse block followed by
\* its fragments and then its Stop, the input is the parse of the
\* concatenation of the fragments, whether or not a fragment or a prefix
\* parses on its own; an unparseable concatenation fails the aggregation;
\* fragments of other indices in between do not mix in; without a Stop
\* nothing is parsed and the input is the Start's.
C25_FragmentsParsedAtStop ==
    Responded =>
        /\ \A i \in Opened :
              FragmentsThenStop(i) =>
                  IF ParseOfFragments(i).ok
                      THEN TheResponse.ok =>
                              LET entry == TheResponse.content[Rank(EntryIndices, i)]
                              IN  /\ entry.type = "tool_use"
                                  /\ entry.input = ParseOfFragments(i).value
                      ELSE ~TheResponse.ok
        /\ (\A i \in BlockIndices :
               \/ FragmentsThenStop(i) /\ ParseOfFragments(i).ok
               \/ StopsOf(i) = {}) => TheResponse.ok
        /\ \A i \in Opened :
              (/\ TheResponse.ok /\ StopsOf(i) = {}
               /\ Cardinality(StartsOf(i)) = 1 /\ LastStart(i).type = "tool_use")
              => TheResponse.content[Rank(EntryIndices, i)].input = LastStart(i).input

\* {"a":1   ,"b":2   } for index 0, with a fragment of index 1 in between
C25_Witness ==
    /\ Succeeded
    /\ events = FragStarts \o
                <<InputJsonDelta(0, FragOpenA), InputJsonDelta(1, FragPath),
                  InputJsonDelta(0, FragB), InputJsonDelta(0, FragClose),
                  ContentBlockStop(0)>>
    /\ TheResponse.content[1].input = JObject({<<"\"a\"", "1">>, <<"\"b\"", "2">>})
    /\ TheResponse.content[2].input = EmptyInput

-----------------------------------------------------------------------------
(* Claims about what a tool round records (CallToolsSpec)                  *)

\* the ToolResult the executor handed back to the call that is being made
Handed == CHOOSE o \in Returned.handed : TRUE

\* C26: an executor outcome with is_error = true does not fail the step: the
\* step succeeds, appends a ToolResult whose content is "Error: " followed
\* by the outcome's text, hands over to ModelRequest and does not finish
\* the run; with is_error = false the content is the text as it is.
C26_ToolErrorIsAnOutcome ==
    [][(CallToolsStep /\ Returned.handed # {})
       => /\ Returned.ret = RetOk("ModelRequest")
          /\ current_node' = "ModelRequest" /\ ~finished'
          /\ message_history' =
                Append(message_history,
                       Message("user",
                               <<ToolResultBlock(FirstAsked(LastMessage).id,
                                     IF Handed.is_error
                                         THEN "Error: " \o Handed.content
                                         ELSE Handed.content)>>))]_vars

\* the executor reported an error and the round was committed
C26_Witness ==
    /\ log # <<>> /\ LastCall.ran = "CallTools"
    /\ LastCall.handed = {[is_error |-> TRUE, content |-> "Failed to read file"]}
    /\ LastCall.ret = RetOk("ModelRequest") /\ ~finished
    /\ LastMessage = Message("user",
                             <<ToolResultBlock("t1", "Error: Failed to read file")>>)

\* C27 (as stated): after a successful CallTools step tool_outputs[id] is the
\* outcome's raw text, without the error prefix, whether is_error is false
\* or true.
C27_OutputIsRawText ==
    (/\ log # <<>> /\ LastCall.ran = "CallTools" /\ LastCall.handed # {}
     /\ LastCall.ret.kind = "Ok")
    => \E o \in LastCall.handed :
          \E id \in DOMAIN tool_outputs :
              /\ LastMessage.content[1].tool_use_id = id
              /\ tool_outputs[id] = o.content

\* what the code records: the text of the ToolResult block, prefix included
C27_OutputIsResultContent ==
    [][(CallToolsStep /\ Returned.handed # {})
       => LET id == FirstAsked(LastMessage).id
          IN  /\ id \in DOMAIN tool_outputs'
              /\ tool_outputs'[id] = ResultContent(Handed)]_vars

\* C28 (as stated): a ToolUse input that does not deserialize into the
\* executor's input type fails the step with the error kind InvalidToolInput.
C28_BadInputIsInvalidToolInput ==
    (/\ log # <<>> /\ LastCall.ran = "CallTools" /\ LastCall.ret.kind = "Err"
     /\ message_history # <<>> /\ LastMessage.role = "assistant"
     /\ ToolUsesOf(LastMessage) # {}
     /\ \E registry \in deps_tools : FirstAsked(LastMessage).name \in registry
     /\ ~InputDeserializes(FirstAsked(LastMessage).name, FirstAsked(LastMessage).input))
    => LastCall.ret.err = "InvalidToolInput"

\* what the code does on such an input: the opaque Other, no executor run,
\* the state kept, the run finished
C28_BadInputIsOther ==
    [][(/\ CallToolsStep
        /\ message_history # <<>> /\ LastMessage.role = "assistant"
        /\ ToolUsesOf(LastMessage) # {}
        /\ \E registry \in deps_tools : FirstAsked(LastMessage).name \in registry
        /\ ~InputDeserializes(FirstAsked(LastMessage).name,
                              FirstAsked(LastMessage).input))
       => /\ Returned.ret = RetErr("Other", "invalid input")
          /\ Returned.execs = 0 /\ Returned.handed = {}
          /\ StateKept /\ finished']_vars

-----------------------------------------------------------------------------
(* Claims about message-level events (MsgSpec)                             *)

MessageDeltas == {k \in Positions : events[k].type = "message_delta"}
UsageDeltas == {k \in MessageDeltas : events[k].usage # NoUsage}
UsageStarts ==
    {k \in Positions : events[k].type = "message_start" /\ events[k].usage # NoUsage}
UsageAt(k) == CHOOSE u \in events[k].usage : TRUE

\* C29: stop_reason and stop_sequence are those of the last MessageDelta,
\* also when it carries none after an earlier one carried one, and None
\* when there is no MessageDelta; usage is that of the last MessageDelta
\* carrying usage, otherwise the one MessageStart seeded (zeros when it
\* seeded none).
C29_LastMessageDeltaWins ==
    Responded =>
        /\ TheResponse.ok
        /\ TheResponse.stop_reason =
              IF MessageDeltas = {} THEN None ELSE events[Max(MessageDeltas)].stop_reason
        /\ TheResponse.stop_sequence =
              IF MessageDeltas = {} THEN None ELSE events[Max(MessageDeltas)].stop_sequence
        /\ TheResponse.usage =
              IF UsageDeltas # {} THEN UsageAt(Max(UsageDeltas))
              ELSE IF UsageStarts # {} THEN UsageAt(Max(UsageStarts))
              ELSE InitialUsage

\* a MessageDelta without stop_reason and usage follows one that had both
C29_Witness ==
    /\ Succeeded
    /\ events = <<HeaderEvent, MessageDelta("EndTurn", None, SomeUsage(1, 2)),
                  MessageDelta("StopSequence", "STOP", NoUsage),
                  MessageDelta(None, None, NoUsage)>>
    /\ TheResponse.stop_reason = None /\ TheResponse.stop_sequence = None
    /\ TheResponse.usage = [input_tokens |-> 1, output_tokens |-> 2]

-----------------------------------------------------------------------------
(* Claims about deltas without a Start (AggSpec)                           *)

\* C30: a TextDelta for an index that has had no ContentBlockStart creates
\* a Text entry for that index holding the delta's text; later TextDeltas of
\* the index append to it; the entry stands in the content at the place its
\* index gives it among the entries.
C30_TextDeltaCreatesEntry ==
    Succeeded =>
        \A i \in BlockIndices :
            (StartsOf(i) = {} /\ DeltasOf(i, "text_delta") # {})
            => /\ i \in EntryIndices
               /\ Len(TheResponse.content) = Cardinality(EntryIndices)
               /\ TheResponse.content[Rank(EntryIndices, i)] =
                     TextBlock(JoinTexts(DeltasOf(i, "text_delta"), ""))

\* index 0 gets its entry from a delta, after index 1 was opened
C30_Witness ==
    /\ Succeeded
    /\ events = <<TextStart(1, "S"), TextDelta(0, "Hi"), TextDelta(0, " there")>>
    /\ TheResponse.content = <<TextBlock("Hi there"), TextBlock("S")>>

-----------------------------------------------------------------------------
(* Claims about thinking events, replaced entries and events after         *)
(* MessageStop (EdgeSpec)                                                  *)

IsThinkingEvent(e) ==
    \/ e.type = "content_block_start" /\ e.content_block.type = "thinking"
    \/ e.type = "content_block_delta"
       /\ e.delta.type \in {"thinking_delta", "signature_delta"}

\* `events` without its thinking events
WithoutThinking == SelectSeq(events, LAMBDA e : ~IsThinkingEvent(e))

\* C31: no thinking content is surfaced: a Thinking Start adds no entry and
\* ThinkingDelta and SignatureDelta change no entry, for every sequence:
\* the result is the one the sequence gives with its thinking events
\* left out, and no entry holds a thinking text or a signature.
C31_ThinkingIsNotSurfaced ==
    Responded =>
        /\ TheResponse = StreamProcessEvents(WithoutThinking)
        /\ TheResponse.ok =>
              \A k \in 1..Len(TheResponse.content) :
                  /\ TheResponse.content[k].type \in {"text", "tool_use"}
                  /\ TheResponse.content[k].type = "text" =>
                        TheResponse.content[k].text \notin {"T", "hm", "sig", "Thm"}

\* thinking events between the Start and the delta of a Text block
C31_Witness ==
    /\ Succeeded
    /\ events = <<TextStart(0, "S"), ThinkingStart(0, "T"), ThinkingDelta(0, "hm"),
                  TextDelta(0, "Hi")>>
    /\ TheResponse.content = <<TextBlock("SHi")>>

-----------------------------------------------------------------------------
(* Claims about the shape of the history over a run (Spec)                 *)

\* the calls that appended a message, in order
Appenders == SelectSeq(log, LAMBDA entry : entry.appended = 1)

Submits == {i \in Calls : log[i].streams = 1}

\* the history as call i found it: the messages appended by the calls before
HistoryBefore(i) ==
    SubSeq(message_history, 1,
           Cardinality({j \in 1..(i - 1) : log[j].appended = 1}))

ToolRoundBefore(i) == i > 1 /\ log[i - 1].ran = "CallTools" /\ log[i - 1].ret.kind = "Ok"
DroppedBefore(i) == i > 1 /\ log[i - 1].ret = RetDropped

\* every provider call is made with the full history of that moment, which
\* is non-empty and ends with a User message
FullHistorySent(i) ==
    /\ log[i].sent = {HistoryBefore(i)}
    /\ HistoryBefore(i) # <<>>
    /\ HistoryBefore(i)[Len(HistoryBefore(i))].role = "user"

ModelRequestStep ==
    ~finished /\ current_node = "ModelRequest" /\ Len(log') = Len(log) + 1

ToolResults ==
    {<<k, b>> \in (1..Len(message_history)) \X (1..3) :
        /\ b <= Len(message_history[k].content)
        /\ message_history[k].content[b].type = "tool_result"}
ResultAt(p) == message_history[p[1]].content[p[2]]
ResultsFor(id) == {p \in ToolResults : ResultAt(p).tool_use_id = id}
\* the most recent ToolResult block of an id
LatestResult(id) ==
    ResultAt(CHOOSE p \in ResultsFor(id) :
                \A q \in ResultsFor(id) :
                    q[1] < p[1] \/ (q[1] = p[1] /\ q[2] <= p[2]))

-----------------------------------------------------------------------------
(* Claims about termination (LiveSpec)                                     *)

\* so far the model has always asked for a tool and nothing has failed
OnlyToolRounds ==
    \A i \in Calls :
        /\ log[i].ret.kind = "Ok"
        /\ log[i].ran = "ModelRequest" => log[i].stop = "ToolUse"

-----------------------------------------------------------------------------
(* Claims about tool names (Spec)                                          *)

\* call i read a stream to its end, and it holds a ToolUse Start whose name
\* is not a known tool name
UnknownToolAsked(i) ==
    \E evs \in log[i].received :
        \E k \in 1..Len(evs) :
            /\ evs[k].type = "content_block_start"
            /\ evs[k].content_block.type = "tool_use"
            /\ evs[k].content_block.name \notin KnownToolNames

-----------------------------------------------------------------------------
(* Claims about replaced entries and events after MessageStop (EdgeSpec)   *)

\* what process_events has built once the first k events are applied
AccAt(k) == ProcessLoop(InitialAcc, [i \in 1..k |-> ConvertEvent(events[i])])

IsTextDelta(e) == e.type = "content_block_delta" /\ e.delta.type = "text_delta"

\* the entry of index i is a ToolUse block once k events are applied
ToolUseEntryAt(k, i) ==
    /\ AccAt(k).failed = None
    /\ i \in DOMAIN AccAt(k).content_blocks
    /\ AccAt(k).content_blocks[i].type = "tool_use"

ReplacedScenario ==
    <<ToolUseStart(0, "t1", "read_file", EmptyInput), InputJsonDelta(0, FragOpenA),
      TextDelta(0, "Hi"), ContentBlockStop(0)>>

\* C38: a TextDelta for an index whose entry is a ToolUse block replaces the
\* entry with a Text block holding only the delta's text; the aggregation
\* does not fail on it and does not ignore it; JSON buffered for the index
\* stays buffered and is dropped, unparsed, at the index's Stop.
C38_TextDeltaReplacesToolUse ==
    Responded =>
        /\ \A k \in Positions :
              (IsTextDelta(events[k]) /\ ToolUseEntryAt(k - 1, events[k].index))
              => /\ AccAt(k).failed = None
                 /\ AccAt(k).content_blocks[events[k].index] =
                       TextBlock(events[k].delta.text)
                 /\ AccAt(k).json_buffers = AccAt(k - 1).json_buffers
        /\ \A k \in Positions :
              (/\ events[k].type = "content_block_stop"
               /\ AccAt(k - 1).failed = None
               /\ events[k].index \in DOMAIN AccAt(k - 1).json_buffers
               /\ events[k].index \in DOMAIN AccAt(k - 1).content_blocks
               /\ AccAt(k - 1).content_blocks[events[k].index].type = "text")
              => /\ AccAt(k).failed = None
                 /\ events[k].index \notin DOMAIN AccAt(k).json_buffers
                 /\ AccAt(k).content_blocks = AccAt(k - 1).content_blocks
        /\ events = ReplacedScenario =>
              TheResponse.ok /\ TheResponse.content = <<TextBlock("Hi")>>

\* a ToolUse block with an unfinished input was overwritten by a TextDelta
C38_Witness ==
    /\ Succeeded /\ events = ReplacedScenario
    /\ ToolUseEntryAt(2, 0)
    /\ TheResponse.content = <<TextBlock("Hi")>>

MessageStops == {k \in Positions : events[k].type = "message_stop"}
\* `events` up to and including its first MessageStop
UpToMessageStop == SubSeq(events, 1, Min(MessageStops))
WithoutMessageStops == SelectSeq(events, LAMBDA e : e.type # "message_stop")

\* C39: aggregation does not stop at MessageStop: the events collected
\* after it are applied like any others, so the result of a sequence is the
\* result of the same sequence with its MessageStop events left out, every
\* event having had its effect.
C39_MessageStopEndsNothing ==
    Responded =>
        /\ TheResponse = StreamProcessEvents(WithoutMessageStops)
        /\ \A k \in MessageStops : AccAt(k) = AccAt(k - 1)
        /\ TheResponse.ok => TheResponse = BuildResponse(AccAt(Len(events)))

\* a delta and a MessageDelta after MessageStop have changed the response
C39_Witness ==
    /\ Succeeded
    /\ events = <<TextStart(0, "S"), MessageStop, TextDelta(0, "Hi"),
                  MessageDelta("EndTurn", None, SomeUsage(1, 2))>>
    /\ TheResponse.content = <<TextBlock("SHi")>>
    /\ TheResponse.stop_reason = "EndTurn"
    /\ StreamProcessEvents(UpToMessageStop).content = <<TextBlock("S")>>
    /\ TheResponse # StreamProcessEvents(UpToMessageStop)

====
